---- MODULE Spec2Model ----
(***************************************************************************)
(* A model of ddspsynth: the five generators of modules/generators.py and  *)
(* the spectral analysis / loss functions of spectral.py.                  *)
(*                                                                         *)
(* Numbers are exact rationals <<n, d>> (d > 0, lowest terms); the three   *)
(* non-finite floats are <<0, 0>> (nan), <<1, 0>> (+inf), <<-1, 0>> (-inf).*)
(* A tensor [batch, n_frames, n_channels] is modelled for one batch item   *)
(* as a sequence of frames, each a sequence of channel values: every       *)
(* operation of the code acts on the batch items independently.            *)
(* An audio buffer [batch, n_samples] is a sequence of samples.            *)
(***************************************************************************)
EXTENDS Integers, Sequences, FiniteSets, TLC

VARIABLES gen, caller, last, sizes, loss, lcall, loud, mel, mcall

vars == <<gen, caller, last, sizes, loss, lcall, loud, mel, mcall>>

----------------------------------------------------------------------------
(* Bounds of the model.                                                    *)

MaxFrames == 2
MaxChan == 2
MaxSamples == 3

\* The sample rates of the generators of the model, in Hz.
SampleRates == {8}

----------------------------------------------------------------------------
(* Exact arithmetic.                                                       *)

Abs(x) == IF x < 0 THEN -x ELSE x

RECURSIVE GCD(_, _)
GCD(a, b) == IF b = 0 THEN a ELSE GCD(b, a % b)

\* The rational n/d (d # 0) in lowest terms with a positive denominator.
Rat(n, d) ==
  LET s == IF d < 0 THEN -1 ELSE 1
      g == GCD(Abs(n), Abs(d))
  IN  <<(s * n) \div g, (s * d) \div g>>

R(n) == <<n, 1>>
NaN == <<0, 0>>
PosInf == <<1, 0>>
NegInf == <<-1, 0>>
IsFinite(x) == x[2] # 0

\* Sums and products of finite values, over the least common denominator.
RAdd(x, y) ==
  LET g == GCD(x[2], y[2])
  IN  Rat(x[1] * (y[2] \div g) + y[1] * (x[2] \div g), (x[2] \div g) * y[2])
RNeg(x) == <<-x[1], x[2]>>
RSub(x, y) == RAdd(x, RNeg(y))
RMul(x, y) ==
  LET a == Rat(x[1], y[2])
      b == Rat(y[1], x[2])
  IN  <<a[1] * b[1], a[2] * b[2]>>
RLt(x, y) == x[1] * y[2] < y[1] * x[2]
RAbs(x) == <<Abs(x[1]), x[2]>>

\* IEEE division of two finite values: x/0 is +-inf, 0/0 is nan.
RDiv(x, y) ==
  IF y[1] # 0 THEN Rat(x[1] * y[2], x[2] * y[1])
  ELSE IF x[1] > 0 THEN PosInf
  ELSE IF x[1] < 0 THEN NegInf
  ELSE NaN

RECURSIVE RSum(_)
RSum(s) == IF s = <<>> THEN R(0) ELSE RAdd(s[1], RSum(Tail(s)))

\* The elements of a sequence given by a rule, computed once.
Materialize(s) == s \o <<>>

\* Python's optional argument: <<>> is None, <<v>> is the value v.
None == <<>>
Some(v) == <<v>>

----------------------------------------------------------------------------
(* ddspsynth.util, as the generators use it.                               *)

\* exp_sigmoid(x) = 2 * sigmoid(x)^log(10) + 1e-7, to three decimals, on the
\* raw control values of the model.
ExpSigmoid(x) ==
  CASE x = R(-2) -> Rat(15, 1000)
    [] x = R(-1) -> Rat(97, 1000)
    [] x = R(0) -> Rat(405, 1000)
    [] x = R(1) -> Rat(972, 1000)
    [] x = R(2) -> Rat(1493, 1000)

\* scale_fn applied to every element of a tensor.
Scale(t) == [f \in DOMAIN t |-> [c \in DOMAIN t[f] |-> ExpSigmoid(t[f][c])]]

\* f0 * {1, ..., n_harmonics} per frame; f0 has one channel.
get_harmonic_frequencies(f0, n_harmonics) ==
  [f \in DOMAIN f0 |-> [k \in 1..n_harmonics |-> RMul(f0[f][1], R(k))]]

\* A new tensor: the distribution with every channel at or above Nyquist zeroed.
remove_above_nyquist(harmonic_frequencies, harmonic_distribution, sample_rate) ==
  [f \in DOMAIN harmonic_distribution |->
    [k \in DOMAIN harmonic_distribution[f] |->
      IF RLt(harmonic_frequencies[f][k], Rat(sample_rate, 2))
      THEN harmonic_distribution[f][k] ELSE R(0)]]

\* The audio lengths the synthesis functions return.
harmonic_synthesis_len(n_samples) == n_samples
wavetable_synthesis_len(n_samples) == n_samples
resample_frames_len(n_samples) == n_samples
\* oscillator_bank sums the sinusoids of envelopes already at sample rate
oscillator_bank_len(envelope_len) == envelope_len
\* fir_filter returns audio of the length of its input
fir_filter_len(audio_len) == audio_len

\* torch broadcasting of two last-dimension sizes.
Broadcastable(a, b) == a = b \/ a = 1 \/ b = 1

NChannels(t) == Len(t[1])

----------------------------------------------------------------------------
(* modules/generators.py                                                   *)

ScaleFns == {"exp_sigmoid", "None"}

\* The generator objects __init__ can build, within the bounds.
AdditiveConfigs ==
  [kind : {"Additive"}, n_samples : {MaxSamples}, sample_rate : SampleRates,
   scale_fn : ScaleFns, normalize_below_nyquist : BOOLEAN,
   n_harmonics : 1..MaxChan]

SinusoidsConfigs ==
  [kind : {"Sinusoids"}, n_samples : {MaxSamples}, sample_rate : SampleRates,
   amp_scale_fn : ScaleFns, freq_scale_fn : {"frequencies_sigmoid", "None"},
   n_sinusoids : 1..MaxChan]

FilteredNoiseConfigs ==
  [kind : {"FilteredNoise"}, filter_size : 2..(2 * MaxChan + 1),
   n_samples : {MaxSamples}, scale_fn : ScaleFns]

WavetableConfigs ==
  [kind : {"Wavetable"}, len_waveform : 1..MaxChan, n_samples : {MaxSamples},
   sample_rate : SampleRates, scale_fn : ScaleFns]

SawOscillatorConfigs ==
  [kind : {"SawOscillator"}, n_samples : {MaxSamples},
   sample_rate : SampleRates, scale_fn : ScaleFns]

GenConfigs ==
  AdditiveConfigs \cup SinusoidsConfigs \cup FilteredNoiseConfigs
    \cup WavetableConfigs \cup SawOscillatorConfigs

\* Mutant of ResolveNSamples: the override is ignored.
ResolveNSamples_IgnoreOverride(g, n_samples) == g.n_samples

\* if n_samples is None: n_samples = self.n_samples
ResolveNSamples(g, n_samples) ==
  IF n_samples = None THEN g.n_samples ELSE n_samples[1]

\* Mutant of Normalize: the division is by the number of channels.
Normalize_ByCount(harmonic_distribution) ==
  [f \in DOMAIN harmonic_distribution |->
    [k \in DOMAIN harmonic_distribution[f] |->
      RDiv(harmonic_distribution[f][k], R(Len(harmonic_distribution[f])))]]

\* harmonic_distribution /= torch.sum(harmonic_distribution, axis=-1, keepdim=True)
Normalize(harmonic_distribution) ==
  [f \in DOMAIN harmonic_distribution |->
    [k \in DOMAIN harmonic_distribution[f] |->
      RDiv(harmonic_distribution[f][k], RSum(harmonic_distribution[f]))]]

\* The names of the control inputs of each forward, n_samples left out.
ForwardParams(kind) ==
  CASE kind = "Additive" -> {"amplitudes", "harmonic_distribution", "f0_hz"}
    [] kind = "Sinusoids" -> {"amplitudes", "frequencies"}
    [] kind = "FilteredNoise" -> {"freq_response"}
    [] kind = "Wavetable" -> {"amplitudes", "wavetable", "f0_hz"}
    [] kind = "SawOscillator" -> {"amplitudes", "f0_hz"}

\* Mutant of get_param_sizes: the half spectrum without its last bin.
get_param_sizes_HalfOnly(g) ==
  CASE g.kind = "Additive" ->
         [amplitudes |-> 1, harmonic_distribution |-> g.n_harmonics, f0_hz |-> 1]
    [] g.kind = "Sinusoids" ->
         [amplitudes |-> g.n_sinusoids, frequencies |-> g.n_sinusoids]
    [] g.kind = "FilteredNoise" ->
         [freq_response |-> g.filter_size \div 2]
    [] g.kind = "Wavetable" ->
         [amplitudes |-> 1, wavetable |-> g.len_waveform, f0_hz |-> 1]
    [] g.kind = "SawOscillator" ->
         [amplitudes |-> 1, f0_hz |-> 1]

get_param_sizes(g) ==
  CASE g.kind = "Additive" ->
         [amplitudes |-> 1, harmonic_distribution |-> g.n_harmonics, f0_hz |-> 1]
    [] g.kind = "Sinusoids" ->
         [amplitudes |-> g.n_sinusoids, frequencies |-> g.n_sinusoids]
    [] g.kind = "FilteredNoise" ->
         [freq_response |-> g.filter_size \div 2 + 1]
    [] g.kind = "Wavetable" ->
         [amplitudes |-> 1, wavetable |-> g.len_waveform, f0_hz |-> 1]
    [] g.kind = "SawOscillator" ->
         [amplitudes |-> 1, f0_hz |-> 1]

\* What a forward call leaves behind: how it ended, the computations it ran in
\* order, the length of the audio it returned (None when it raised), the
\* caller's tensors after the call, and for Additive the distribution before
\* the normalisation and the one handed to harmonic_synthesis.
Result(outcome, ops, out, tensors, pre_norm, synth_hd) ==
  [outcome |-> outcome, ops |-> ops, out |-> out, tensors |-> tensors,
   pre_norm |-> pre_norm, synth_hd |-> synth_hd]

Additive_forward(g, args, n_samples_arg) ==
  LET n_samples == ResolveNSamples(g, n_samples_arg)
      scaled == g.scale_fn # "None"
      amplitudes == IF scaled THEN Scale(args.amplitudes)
                    ELSE args.amplitudes
      hd1 == IF scaled THEN Scale(args.harmonic_distribution)
             ELSE args.harmonic_distribution
      \* f0_hz[:, :, None] is a view: f0_hz.data is frames x 1 either way
      f0_hz == args.f0_hz.data
      n_harmonics == NChannels(hd1)
      hd2 == IF g.normalize_below_nyquist
             THEN remove_above_nyquist(
                    get_harmonic_frequencies(f0_hz, n_harmonics), hd1, g.sample_rate)
             ELSE hd1
      hd3 == Normalize(hd2)
      \* the division is in place: it writes the caller's tensor when no
      \* earlier step has replaced it by a new one
      aliased == ~scaled /\ ~g.normalize_below_nyquist
      ok == Broadcastable(NChannels(amplitudes), NChannels(hd3))
  IN  Result(IF ok THEN "ok" ELSE "RuntimeError",
             (IF scaled THEN <<"scale">> ELSE <<>>)
               \o (IF g.normalize_below_nyquist THEN <<"bandlimit">> ELSE <<>>)
               \o <<"normalize", "harmonic_synthesis">>,
             IF ok THEN Some(harmonic_synthesis_len(n_samples)) ELSE None,
             IF aliased THEN [args EXCEPT !.harmonic_distribution = hd3] ELSE args,
             hd2, hd3)

Sinusoids_forward(g, args, n_samples_arg) ==
  LET n_samples == ResolveNSamples(g, n_samples_arg)
      envelope_len == resample_frames_len(n_samples)
      \* oscillator_bank multiplies the two envelopes channel by channel
      ok == Broadcastable(NChannels(args.amplitudes), NChannels(args.frequencies))
  IN  Result(IF ok THEN "ok" ELSE "RuntimeError",
             (IF g.amp_scale_fn # "None" THEN <<"scale">> ELSE <<>>)
               \o (IF g.freq_scale_fn # "None" THEN <<"scale">> ELSE <<>>)
               \o <<"resample_frames", "resample_frames", "oscillator_bank">>,
             IF ok THEN Some(oscillator_bank_len(envelope_len)) ELSE None,
             args, <<>>, <<>>)

FilteredNoise_forward(g, args, n_samples_arg) ==
  LET n_samples == ResolveNSamples(g, n_samples_arg)
      \* audio = torch.rand(batch_size, n_samples) ...
      audio_len == n_samples
  IN  Result("ok",
             (IF g.scale_fn # "None" THEN <<"scale">> ELSE <<>>)
               \o <<"rand", "fir_filter">>,
             Some(fir_filter_len(audio_len)), args, <<>>, <<>>)

Wavetable_forward(g, args, n_samples_arg) ==
  LET n_samples == ResolveNSamples(g, n_samples_arg)
  IN  Result("ok",
             (IF g.scale_fn # "None" THEN <<"scale">> ELSE <<>>)
               \o <<"wavetable_synthesis">>,
             Some(wavetable_synthesis_len(n_samples)), args, <<>>, <<>>)

SawOscillator_forward(g, args, n_samples_arg) ==
  LET n_samples == ResolveNSamples(g, n_samples_arg)
  IN  Result("ok",
             (IF g.scale_fn # "None" THEN <<"scale">> ELSE <<>>)
               \o <<"wavetable_synthesis">>,
             Some(wavetable_synthesis_len(n_samples)), args, <<>>, <<>>)

----------------------------------------------------------------------------
(* The inputs of the generator calls.                                      *)

Raw == {R(-1), R(2)}
\* any values over the channels, the same in every frame
Tensors(F, C) == {[f \in 1..F |-> row] : row \in [1..C -> Raw]}
\* the same value in every frame and channel
ConstTensors(F, C) == {[f \in 1..F |-> [c \in 1..C |-> v]] : v \in Raw}
\* a fundamental whose second harmonic is at Nyquist, and one at Nyquist itself
F0Set == {R(2), R(4)}
\* f0_hz with its trailing channel dimension (dims = 3), or without it as a
\* condition that is the same in every frame (dims = 2)
F0Tensors(F) ==
  [dims : {3}, data : [1..F -> [1..1 -> F0Set]]]
    \cup [dims : {2}, data : {[f \in 1..F |-> <<v>>] : v \in F0Set}]
\* n_frames <= n_samples
NSamplesArgs == {None} \cup {Some(n) : n \in MaxFrames..MaxSamples}

NoCall ==
  [kind |-> "none", args |-> <<>>, n_samples |-> None]
    @@ Result("none", <<>>, None, <<>>, <<>>, <<>>)

Call(kind, args, n_samples_arg, r) ==
  /\ last' = [kind |-> kind, args |-> args, n_samples |-> n_samples_arg] @@ r
  /\ caller' = r.tensors
  /\ UNCHANGED <<gen, sizes, loss, lcall, loud, mel, mcall>>

AdditiveForward ==
  /\ gen.kind = "Additive"
  /\ last.kind = "none"
  /\ \E F \in 1..MaxFrames, C \in 1..MaxChan, ns \in NSamplesArgs :
       \E a \in ConstTensors(F, 1), hd \in Tensors(F, C), f0 \in F0Tensors(F) :
         LET args == [amplitudes |-> a, harmonic_distribution |-> hd, f0_hz |-> f0]
         IN  Call("Additive", args, ns, Additive_forward(gen, args, ns))

SinusoidsForward ==
  /\ gen.kind = "Sinusoids"
  /\ last.kind = "none"
  /\ \E F \in 1..MaxFrames, Ca \in 1..MaxChan, Cf \in 1..MaxChan,
        ns \in NSamplesArgs :
       \E a \in ConstTensors(F, Ca), fr \in ConstTensors(F, Cf) :
         LET args == [amplitudes |-> a, frequencies |-> fr]
         IN  Call("Sinusoids", args, ns, Sinusoids_forward(gen, args, ns))

FilteredNoiseForward ==
  /\ gen.kind = "FilteredNoise"
  /\ last.kind = "none"
  /\ \E F \in 1..MaxFrames, C \in 1..(MaxChan + 1), ns \in NSamplesArgs :
       \E fr \in ConstTensors(F, C) :
         LET args == [freq_response |-> fr]
         IN  Call("FilteredNoise", args, ns, FilteredNoise_forward(gen, args, ns))

WavetableForward ==
  /\ gen.kind = "Wavetable"
  /\ last.kind = "none"
  /\ \E F \in 1..MaxFrames, C \in 1..MaxChan, ns \in NSamplesArgs :
       \E a \in ConstTensors(F, 1), wt \in ConstTensors(F, C), f0 \in F0Tensors(F) :
         LET args == [amplitudes |-> a, wavetable |-> wt, f0_hz |-> f0]
         IN  Call("Wavetable", args, ns, Wavetable_forward(gen, args, ns))

SawOscillatorForward ==
  /\ gen.kind = "SawOscillator"
  /\ last.kind = "none"
  /\ \E F \in 1..MaxFrames, ns \in NSamplesArgs :
       \E a \in ConstTensors(F, 1), f0 \in F0Tensors(F) :
         LET args == [amplitudes |-> a, f0_hz |-> f0]
         IN  Call("SawOscillator", args, ns, SawOscillator_forward(gen, args, ns))

GetParamSizes ==
  /\ sizes' = get_param_sizes(gen)
  /\ UNCHANGED <<gen, caller, last, loss, lcall, loud, mel, mcall>>

\* The caller drops the tensors and the result of the call that returned.
Discard ==
  /\ last.kind # "none"
  /\ last' = NoCall
  /\ caller' = <<>>
  /\ UNCHANGED <<gen, sizes, loss, lcall, loud, mel, mcall>>

Idle == [kind |-> "none"]

Init ==
  /\ gen \in GenConfigs
  /\ caller = <<>>
  /\ last = NoCall
  /\ sizes = <<>>
  /\ loss = Idle
  /\ lcall = Idle
  /\ loud = Idle
  /\ mel = Idle
  /\ mcall = Idle

Next ==
  \/ AdditiveForward
  \/ SinusoidsForward
  \/ FilteredNoiseForward
  \/ WavetableForward
  \/ SawOscillatorForward
  \/ GetParamSizes
  \/ Discard

Spec == Init /\ [][Next]_vars

----------------------------------------------------------------------------
(* spectral.py: the short-time Fourier transform of the tensor library,    *)
(* exact for the window sizes that divide 4.                               *)

MaxLen == 4
MaxRes == 2

\* cos and sin of j quarter turns.
CosQ(j) == CASE j % 4 = 0 -> 1 [] j % 4 = 1 -> 0 [] j % 4 = 2 -> -1 [] j % 4 = 3 -> 0
SinQ(j) == CASE j % 4 = 0 -> 0 [] j % 4 = 1 -> 1 [] j % 4 = 2 -> 0 [] j % 4 = 3 -> -1

\* torch.hann_window(size)[n] = (1 - cos(2 pi n / size)) / 2
hann_window(size, n) == Rat(1 - CosQ(n * (4 \div size)), 2)

\* amp(torch.stft(...)) at frame t and bin k: re^2 + im^2 of the windowed DFT.
StftPower(audio, size, hop_length, t, k) ==
  LET y(n) == RMul(R(audio[t * hop_length + n + 1]), hann_window(size, n))
      re == RSum(Materialize([i \in 1..size |->
                   RMul(y(i - 1), R(CosQ(k * (i - 1) * (4 \div size))))]))
      im == RSum(Materialize([i \in 1..size |->
                   RMul(y(i - 1), R(-SinQ(k * (i - 1) * (4 \div size))))]))
  IN  RAdd(RMul(re, re), RMul(im, im))

\* The number of frames of torch.stft(..., center=False).
StftFrames(n, size, hop_length) == 1 + (n - size) \div hop_length

\* The one-sided spectrogram of one window size, its elements in a row
\* (frame by frame, size // 2 + 1 bins each); None when torch.stft raises.
Spectrogram(audio, size, hop_length) ==
  IF hop_length <= 0 \/ Len(audio) < size THEN None
  ELSE LET bins == size \div 2 + 1
           frames == StftFrames(Len(audio), size, hop_length)
       IN  Some(Materialize([e \in 1..(frames * bins) |->
                  StftPower(audio, size, hop_length, (e - 1) \div bins, (e - 1) % bins)]))

\* hop_length=int((1-overlap)*size), overlap the fraction <<a, b>>.
HopLength(size, overlap) == ((overlap[2] - overlap[1]) * size) \div overlap[2]

\* MultiscaleFFT: one spectrogram per size, in the order of the sizes.
MultiscaleFFT(audio, fft_sizes, overlap) ==
  Materialize([i \in 1..Len(fft_sizes) |->
    Spectrogram(audio, fft_sizes[i], HopLength(fft_sizes[i], overlap))])

\* log_eps(x) = log(x + eps), eps = 1e-5, to two decimals, on the power
\* values k/4 that the spectrograms of the model take.
log_eps_value(x) ==
  CASE x = Rat(0, 4) -> Rat(-1151, 100)
    [] x = Rat(1, 4) -> Rat(-139, 100)
    [] x = Rat(4, 4) -> Rat(0, 100)
    [] x = Rat(5, 4) -> Rat(22, 100)
    [] x = Rat(9, 4) -> Rat(81, 100)
    [] x = Rat(16, 4) -> Rat(139, 100)

log_eps(spec) == Materialize([e \in DOMAIN spec |-> log_eps_value(spec[e])])

----------------------------------------------------------------------------
(* SpectralLoss                                                            *)

\* The pointwise distances of torch.nn.functional.
Pointwise(loss_type, a, b) ==
  LET d == RSub(a, b)
  IN  CASE loss_type = "L1" -> RAbs(d)
        [] loss_type = "MSE" -> RMul(d, d)
        [] loss_type = "smooth_L1" ->
             IF RLt(RAbs(d), R(1)) THEN RMul(Rat(1, 2), RMul(d, d))
             ELSE RSub(RAbs(d), Rat(1, 2))

PointwiseAll(loss_type, input, target) ==
  Materialize([e \in DOMAIN input |-> Pointwise(loss_type, input[e], target[e])])

\* A loss of torch.nn.functional with its reduction: a scalar for 'mean' and
\* 'sum', the tensor of the pointwise distances for 'none'.
Reduce(distances, reduction) ==
  CASE reduction = "mean" ->
         [scalar |-> RDiv(RSum(distances), R(Len(distances)))]
    [] reduction = "sum" -> [scalar |-> RSum(distances)]
    [] reduction = "None" -> [tensor |-> distances]

LossTypes == {"L1", "MSE", "smooth_L1"}

\* loss_func: every branch passes reduction='mean'; a loss_type that is none
\* of the three falls off the end and returns None.
loss_func(input, target, loss_type, reduction) ==
  IF loss_type \in LossTypes
  THEN Some(Reduce(PointwiseAll(loss_type, input, target), "mean"))
  ELSE None

Positive(w) == RLt(R(0), w)

\* Mutant of AddTerm: the weight is left out of the product.
AddTerm_Unweighted(acc, w, input, target, loss_type, reduction) ==
  IF acc.outcome # "ok" THEN acc
  ELSE LET v == loss_func(input, target, loss_type, reduction)
           term == [input |-> input, target |-> target, value |-> v]
       IN  IF v = None
           THEN [acc EXCEPT !.outcome = "TypeError", !.terms = Append(@, term)]
           ELSE [acc EXCEPT !.loss = RAdd(@, v[1].scalar),
                            !.terms = Append(@, term)]

\* loss += w * self.loss_func(...): float * None raises TypeError.
AddTerm(acc, w, input, target, loss_type, reduction) ==
  IF acc.outcome # "ok" THEN acc
  ELSE LET v == loss_func(input, target, loss_type, reduction)
           term == [input |-> input, target |-> target, value |-> v]
       IN  IF v = None
           THEN [acc EXCEPT !.outcome = "TypeError", !.terms = Append(@, term)]
           ELSE [acc EXCEPT !.loss = RAdd(@, RMul(w, v[1].scalar)),
                            !.terms = Append(@, term)]

\* The body of the loop of forward, for the i-th resolution and all after it.
RECURSIVE ForEachSpec(_, _, _, _, _, _, _)
ForEachSpec(acc, cfg, specs, target_specs, loss_type, reduction, i) ==
  IF i > Len(specs) THEN acc
  ELSE LET spec == specs[i][1]
           target_spec == target_specs[i][1]
           a1 == IF Positive(cfg.mag_w)
                 THEN AddTerm(acc, cfg.mag_w, spec, target_spec, loss_type, reduction)
                 ELSE acc
           a2 == IF Positive(cfg.log_mag_w)
                 THEN AddTerm(a1, cfg.log_mag_w, log_eps(spec), log_eps(target_spec),
                              loss_type, reduction)
                 ELSE a1
       IN  ForEachSpec(a2, cfg, specs, target_specs, loss_type, reduction, i + 1)

\* SpectralLoss.forward; input_l and target_l are the loudness curves that
\* compute_loudness returns for the two signals (used when loud_w > 0).
SpectralLoss_forward(cfg, input_audio, target_audio, loss_type, reduction, input_l, target_l) ==
  LET specs == MultiscaleFFT(input_audio, cfg.fft_sizes, cfg.overlap)
      target_specs == MultiscaleFFT(target_audio, cfg.fft_sizes, cfg.overlap)
      start == [outcome |-> "ok", loss |-> R(0), terms |-> <<>>]
  IN  IF \E i \in DOMAIN specs : specs[i] = None \/ target_specs[i] = None
      THEN [start EXCEPT !.outcome = "RuntimeError"]
      ELSE LET a == ForEachSpec(start, cfg, specs, target_specs,
                                loss_type, reduction, 1)
           IN  IF Positive(cfg.loud_w)
               THEN AddTerm(a, cfg.loud_w, input_l, target_l, loss_type, reduction)
               ELSE a

\* The inputs of the loss.
Samples == {0, 1}
Audios(n) == [1..n -> Samples]
\* the targets: silence and a constant signal
Targets(n) == {[i \in 1..n |-> v] : v \in Samples}
FftSizes == {2, 4}
SizeLists == UNION {[1..r -> FftSizes] : r \in 0..MaxRes}
Overlaps == {<<1, 2>>}
LoudnessCurves == {<<R(-80), R(-30)>>}
TargetLoudnessCurves == {<<R(-80), R(-40)>>}

LossConfigs ==
  [kind : {"SpectralLoss"}, fft_sizes : SizeLists, overlap : Overlaps,
   mag_w : {R(-1), R(0), R(2)}, log_mag_w : {R(0), R(1)}, loud_w : {R(0), R(1)}]

LossForward ==
  /\ loss.kind = "SpectralLoss"
  /\ lcall.kind = "none"
  /\ \E x \in Audios(MaxLen), y \in Targets(MaxLen),
        loss_type \in LossTypes \cup {"L2"},
        reduction \in {"mean", "sum", "None"} :
       \E il \in (IF Positive(loss.loud_w) THEN LoudnessCurves ELSE {<<>>}),
          tl \in (IF Positive(loss.loud_w) THEN TargetLoudnessCurves ELSE {<<>>}) :
         lcall' = [kind |-> "forward", input_audio |-> x, target_audio |-> y,
                   loss_type |-> loss_type, reduction |-> reduction,
                   input_l |-> il, target_l |-> tl]
                    @@ SpectralLoss_forward(loss, x, y, loss_type, reduction, il, tl)
  /\ UNCHANGED <<gen, caller, last, sizes, loss, loud, mel, mcall>>

\* The caller drops the loss value.
LossDiscard ==
  /\ lcall.kind # "none"
  /\ lcall' = Idle
  /\ UNCHANGED <<gen, caller, last, sizes, loss, loud, mel, mcall>>

InitLoss ==
  /\ gen = Idle
  /\ caller = <<>>
  /\ last = NoCall
  /\ sizes = <<>>
  /\ loss \in LossConfigs
  /\ lcall = Idle
  /\ loud = Idle
  /\ mel = Idle
  /\ mcall = Idle

NextLoss == LossForward \/ LossDiscard

SpecLoss == InitLoss /\ [][NextLoss]_vars

----------------------------------------------------------------------------
(* compute_loudness                                                        *)

RangeDb == 120

\* The number of frames of torch.stft(audio, n_fft, hop_length): centered, with
\* n_fft // 2 reflected samples on both sides.
StftFramesCentered(n, n_fft, hop_length) ==
  1 + (n + 2 * (n_fft \div 2) - n_fft) \div hop_length

\* pad_or_trim_to_expected_length: the first expected_len values of x, or x
\* followed by pad_value up to expected_len.
pad_or_trim_to_expected_length(x, expected_len, pad_value) ==
  [i \in 1..expected_len |-> IF i <= Len(x) THEN x[i] ELSE pad_value]

\* Python's round(num / den): to the nearest integer, halves to the even one.
PyRound(num, den) ==
  LET q == num \div den
      r == num % den
  IN  IF 2 * r < den THEN q
      ELSE IF 2 * r > den THEN q + 1
      ELSE IF q % 2 = 0 THEN q ELSE q + 1

\* Mutant of ExpectedLen: the product is rounded.
ExpectedLen_Rounded(n, sample_rate, frame_rate) ==
  PyRound(n * frame_rate, sample_rate)

\* n_secs = n / float(sample_rate); expected_len = int(n_secs * frame_rate).
\* The sample rates of the model are powers of two, for which the float
\* quotient and product are exact.
ExpectedLen(n, sample_rate, frame_rate) == (n * frame_rate) \div sample_rate

\* compute_loudness on audio of n samples; db is what lines 107-125 make of
\* the STFT: the mean loudness in dB of each of its frames.
compute_loudness(n, sample_rate, frame_rate, n_fft, range_db, db) ==
  LET expected_len == ExpectedLen(n, sample_rate, frame_rate)
  IN  [outcome |-> "ok",
       curve |-> pad_or_trim_to_expected_length(db, expected_len, R(-range_db))]

LoudSampleRates == {4, 8}
FrameRates == {1, 2, 3, 5}
NFfts == {2, 4}
DbValues == {R(-100), R(-60)}

ComputeLoudness ==
  /\ loud.kind = "none"
  /\ \E n \in 1..MaxLen, sample_rate \in LoudSampleRates,
        frame_rate \in FrameRates, n_fft \in NFfts :
       LET hop_length == sample_rate \div frame_rate
           call == [kind |-> "compute_loudness", n |-> n,
                    sample_rate |-> sample_rate, frame_rate |-> frame_rate,
                    n_fft |-> n_fft, range_db |-> RangeDb]
       IN  IF hop_length = 0 \/ n <= n_fft \div 2
           THEN \* torch.stft raises: no hop, or nothing to reflect
                loud' = call @@ [db |-> <<>>, outcome |-> "RuntimeError", curve |-> <<>>]
           ELSE \E db \in [1..StftFramesCentered(n, n_fft, hop_length) -> DbValues] :
                  loud' = call @@ [db |-> db]
                            @@ compute_loudness(n, sample_rate, frame_rate,
                                                n_fft, RangeDb, db)
  /\ UNCHANGED <<gen, caller, last, sizes, loss, lcall, mel, mcall>>

LoudDiscard ==
  /\ loud.kind # "none"
  /\ loud' = Idle
  /\ UNCHANGED <<gen, caller, last, sizes, loss, lcall, mel, mcall>>

InitLoud ==
  /\ gen = Idle
  /\ caller = <<>>
  /\ last = NoCall
  /\ sizes = <<>>
  /\ loss = Idle
  /\ lcall = Idle
  /\ loud = Idle
  /\ mel = Idle
  /\ mcall = Idle

NextLoud == ComputeLoudness \/ LoudDiscard

SpecLoud == InitLoud /\ [][NextLoud]_vars

----------------------------------------------------------------------------
(* MelSpec                                                                 *)

MelConfigs ==
  [kind : {"MelSpec"}, n_fft : {2, 3, 4}, hop_length : 1..3,
   pad_end : BOOLEAN, center : BOOLEAN]

\* Mutant of MelPad: a remainder of 0 is padded too.
MelPad_Always(l_x, n_fft, hop_length) ==
  hop_length - ((l_x - n_fft) % hop_length)

\* remainder = (l_x - self.n_fft) % self.hop_length
\* pad = 0 if (remainder == 0) else self.hop_length - remainder
MelPad(l_x, n_fft, hop_length) ==
  LET remainder == (l_x - n_fft) % hop_length
  IN  IF remainder = 0 THEN 0 ELSE hop_length - remainder

Zeros(n) == [i \in 1..n |-> 0]

\* MelSpec.forward up to the spectrogram, whose frames the mel filterbank keeps.
MelSpec_forward(m, audio) ==
  LET l_x == Len(audio)
      padded == IF m.pad_end
                THEN audio \o Zeros(MelPad(l_x, m.n_fft, m.hop_length))
                ELSE audio
      raises == IF m.center THEN Len(padded) <= m.n_fft \div 2
                ELSE Len(padded) < m.n_fft
  IN  [padded |-> padded,
       outcome |-> IF raises THEN "RuntimeError" ELSE "ok",
       n_frames |-> IF raises THEN 0
                    ELSE IF m.center
                    THEN StftFramesCentered(Len(padded), m.n_fft, m.hop_length)
                    ELSE StftFrames(Len(padded), m.n_fft, m.hop_length)]

MelForward ==
  /\ mel.kind = "MelSpec"
  /\ mcall.kind = "none"
  /\ \E n \in 1..(MaxLen + 1) :
       \E audio \in Audios(n) :
         mcall' = [kind |-> "forward", audio |-> audio] @@ MelSpec_forward(mel, audio)
  /\ UNCHANGED <<gen, caller, last, sizes, loss, lcall, loud, mel>>

MelDiscard ==
  /\ mcall.kind # "none"
  /\ mcall' = Idle
  /\ UNCHANGED <<gen, caller, last, sizes, loss, lcall, loud, mel>>

InitMel ==
  /\ gen = Idle
  /\ caller = <<>>
  /\ last = NoCall
  /\ sizes = <<>>
  /\ loss = Idle
  /\ lcall = Idle
  /\ loud = Idle
  /\ mel \in MelConfigs
  /\ mcall = Idle

NextMel == MelForward \/ MelDiscard

SpecMel == InitMel /\ [][NextMel]_vars

----------------------------------------------------------------------------
(* Properties of the generators, under Spec.                               *)

Called == last.kind # "none"

\* C1: every forward that returns audio returns n_samples of it: the explicit
\* n_samples argument when one is passed, the configured self.n_samples when
\* it is omitted.
C1_OutputLength ==
  (Called /\ last.out # None) =>
    last.out = (IF last.n_samples # None THEN last.n_samples
                ELSE Some(gen.n_samples))

\* An override different from the configured default was passed and respected.
C1_Witness ==
  /\ Called
  /\ last.n_samples # None
  /\ last.n_samples # Some(gen.n_samples)
  /\ last.out = last.n_samples

\* C2: get_param_sizes() has exactly the control inputs of forward as keys and
\* the stated last-dimension sizes as values.
C2_ParamSizes ==
  sizes # <<>> =>
    /\ DOMAIN sizes = ForwardParams(gen.kind)
    /\ gen.kind = "Additive" =>
         /\ sizes.amplitudes = 1
         /\ sizes.harmonic_distribution = gen.n_harmonics
         /\ sizes.f0_hz = 1
    /\ gen.kind = "Sinusoids" =>
         /\ sizes.amplitudes = gen.n_sinusoids
         /\ sizes.frequencies = gen.n_sinusoids
    /\ gen.kind = "FilteredNoise" =>
         \E half \in 0..gen.filter_size :
           /\ gen.filter_size \in {2 * half, 2 * half + 1}
           /\ sizes.freq_response = half + 1
    /\ gen.kind = "Wavetable" =>
         /\ sizes.amplitudes = 1
         /\ sizes.wavetable = gen.len_waveform
         /\ sizes.f0_hz = 1
    /\ gen.kind = "SawOscillator" =>
         /\ sizes.amplitudes = 1
         /\ sizes.f0_hz = 1

\* get_param_sizes() was called on a FilteredNoise with an odd filter size.
C2_Witness ==
  /\ sizes # <<>>
  /\ gen.kind = "FilteredNoise"
  /\ gen.filter_size = 5
  /\ sizes.freq_response = 3

\* The size of the last dimension of a control tensor as it was passed; f0_hz
\* passed without its channel dimension declares none.
LastDim(t, name) ==
  IF name = "f0_hz" THEN (IF t.dims = 3 THEN NChannels(t.data) ELSE 1)
  ELSE NChannels(t)

ShapeMismatch ==
  \E name \in ForwardParams(gen.kind) :
    LastDim(last.args[name], name) # get_param_sizes(gen)[name]

\* C5: a forward given a control tensor whose last dimension differs from the
\* declared size fails with InvalidInput before any computation is performed.
C5_MismatchRejected ==
  (Called /\ ShapeMismatch) => (last.outcome = "InvalidInput" /\ last.ops = <<>>)

Frames(t) == DOMAIN t
AboveNyquist(f, k) ==
  ~RLt(RMul(last.args.f0_hz.data[f][1], R(k)), Rat(gen.sample_rate, 2))
AllZero(row) == \A k \in DOMAIN row : row[k] = R(0)
NonNegative(row) == \A k \in DOMAIN row : IsFinite(row[k]) /\ row[k][1] >= 0
SumsToOne(row) == NonNegative(row) /\ RSum(row) = R(1)

\* C6 as stated: in every Additive.forward the channels at or above Nyquist are
\* zero before the normalisation, and every frame whose distribution is then
\* not all zero is handed to harmonic_synthesis non-negative and summing to 1.
C6_Original ==
  (Called /\ last.kind = "Additive") =>
    \A f \in Frames(last.pre_norm) :
      /\ \A k \in DOMAIN last.pre_norm[f] :
           AboveNyquist(f, k) => last.pre_norm[f][k] = R(0)
      /\ ~AllZero(last.pre_norm[f]) => SumsToOne(last.synth_hd[f])

\* C6 amended: with normalize_below_nyquist enabled the channels at or above
\* Nyquist are zero before the normalisation; with a scale_fn the distribution
\* entering the normalisation is non-negative; and every frame that enters it
\* non-negative and not all zero is handed to harmonic_synthesis non-negative
\* and summing to 1, its zero channels still zero.
C6_Normalised ==
  (Called /\ last.kind = "Additive") =>
    \A f \in Frames(last.pre_norm) :
      /\ gen.normalize_below_nyquist =>
           \A k \in DOMAIN last.pre_norm[f] :
             AboveNyquist(f, k) => last.pre_norm[f][k] = R(0)
      /\ gen.scale_fn # "None" => NonNegative(last.pre_norm[f])
      /\ (NonNegative(last.pre_norm[f]) /\ ~AllZero(last.pre_norm[f])) =>
           /\ SumsToOne(last.synth_hd[f])
           /\ \A k \in DOMAIN last.pre_norm[f] :
                last.pre_norm[f][k] = R(0) => last.synth_hd[f][k] = R(0)

\* A frame with a channel zeroed at Nyquist and a channel kept, normalised.
C6_Witness ==
  /\ Called
  /\ last.kind = "Additive"
  /\ gen.normalize_below_nyquist
  /\ \E f \in Frames(last.pre_norm) :
       /\ \E k \in DOMAIN last.pre_norm[f] :
            AboveNyquist(f, k) /\ last.synth_hd[f][k] = R(0)
       /\ \E k \in DOMAIN last.pre_norm[f] :
            ~AboveNyquist(f, k) /\ last.synth_hd[f][k] = R(1)

\* C8: a forward call changes neither the configuration of the generator nor
\* the tensors the caller passed in.
C8_ForwardIsPure ==
  [][(last.kind = "none" /\ last'.kind # "none") =>
       (gen' = gen /\ caller' = last'.args)]_vars

----------------------------------------------------------------------------
(* Properties of SpectralLoss, under SpecLoss.                             *)

Returned == lcall.kind = "forward" /\ lcall.outcome = "ok"

\* The i-th spectrogram of a signal, for the i-th fft size.
SpecOf(audio, i) ==
  Spectrogram(audio, loss.fft_sizes[i], HopLength(loss.fft_sizes[i], loss.overlap))[1]

\* The distance d of the call: what loss_func returns for its loss_type.
Distance(a, b) == loss_func(a, b, lcall.loss_type, lcall.reduction)[1].scalar

Weighted(w, a, b) == IF w = R(0) THEN R(0) ELSE RMul(w, Distance(a, b))

\* The sum over the resolutions i..n of
\* mag_w * d(spec_i, target_spec_i) + log_mag_w * d(log_eps(spec_i), log_eps(target_spec_i)).
RECURSIVE SumOfResolutions(_, _, _)
SumOfResolutions(mag_w, log_mag_w, i) ==
  IF i > Len(loss.fft_sizes) THEN R(0)
  ELSE LET spec == SpecOf(lcall.input_audio, i)
           target_spec == SpecOf(lcall.target_audio, i)
       IN  RAdd(RAdd(Weighted(mag_w, spec, target_spec),
                     Weighted(log_mag_w, log_eps(spec), log_eps(target_spec))),
                SumOfResolutions(mag_w, log_mag_w, i + 1))

LoudnessTerm ==
  IF Positive(loss.loud_w)
  THEN RMul(loss.loud_w, Distance(lcall.input_l, lcall.target_l))
  ELSE R(0)

\* C3 as stated: for every mag_w and log_mag_w the loss returned is the plain
\* sum over the resolutions of the two weighted distances, plus the loudness
\* term when loud_w > 0.
C3_Original ==
  (Returned /\ lcall.loss_type \in LossTypes) =>
    lcall.loss = RAdd(SumOfResolutions(loss.mag_w, loss.log_mag_w, 1), LoudnessTerm)

Clip(w) == IF Positive(w) THEN w ELSE R(0)

\* C3 amended: the loss returned is the plain sum over the resolutions of the
\* two weighted distances, a weight that is not positive counting as 0, plus
\* the loudness term when loud_w > 0; nothing is divided by the number of
\* resolutions and the i-th spectrograms are compared with each other.
C3_PlainSum ==
  (Returned /\ lcall.loss_type \in LossTypes) =>
    lcall.loss = RAdd(SumOfResolutions(Clip(loss.mag_w), Clip(loss.log_mag_w), 1),
                      LoudnessTerm)

\* A loss over two different resolutions with all three weights positive.
C3_Witness ==
  /\ Returned
  /\ lcall.loss_type \in LossTypes
  /\ Len(loss.fft_sizes) = 2
  /\ loss.fft_sizes[1] # loss.fft_sizes[2]
  /\ Positive(loss.mag_w) /\ Positive(loss.log_mag_w) /\ Positive(loss.loud_w)
  /\ Len(lcall.terms) = 5
  /\ \A j \in 1..4 : Positive(lcall.terms[j].value[1].scalar)

\* C4: a forward with an unsupported loss_type fails, whatever the weights and
\* the fft sizes; it never returns a loss value.
C4_UnsupportedTypeFails ==
  (lcall.kind = "forward" /\ lcall.loss_type \notin LossTypes) =>
    lcall.outcome # "ok"

\* C10: every distance of a forward call is reduced as its reduction argument
\* says: averaged for 'mean', summed for 'sum', left unreduced for None.
C10_ReductionApplied ==
  lcall.kind = "forward" =>
    \A j \in DOMAIN lcall.terms :
      lcall.terms[j].value # None =>
        lcall.terms[j].value[1] =
          Reduce(PointwiseAll(lcall.loss_type, lcall.terms[j].input,
                              lcall.terms[j].target),
                 lcall.reduction)

----------------------------------------------------------------------------
(* Properties of compute_loudness, under SpecLoud.                         *)

LoudnessReturned == loud.kind = "compute_loudness" /\ loud.outcome = "ok"

----------------------------------------------------------------------------
(* Properties of MelSpec, under SpecMel.                                   *)

IsMultiple(a, h) == \E q \in (-Abs(a))..Abs(a) : a = q * h

\* C9: with pad_end, forward right-pads the audio with pad zeros, where
\* 0 <= pad < hop_length and l_x + pad - n_fft is a multiple of hop_length;
\* pad is 0 exactly when l_x - n_fft already is one; and the padded audio has
\* at least n_fft samples whenever l_x >= n_fft.
C9_PadEnd ==
  (mcall.kind = "forward" /\ mel.pad_end) =>
    LET l_x == Len(mcall.audio)
        pad == Len(mcall.padded) - l_x
    IN  /\ 0 <= pad /\ pad < mel.hop_length
        /\ mcall.padded = mcall.audio \o Zeros(pad)
        /\ IsMultiple(l_x + pad - mel.n_fft, mel.hop_length)
        /\ pad = 0 <=> IsMultiple(l_x - mel.n_fft, mel.hop_length)
        /\ l_x >= mel.n_fft => Len(mcall.padded) >= mel.n_fft

\* Audio shorter than a window was padded and transformed.
C9_Witness ==
  /\ mcall.kind = "forward"
  /\ mel.pad_end
  /\ Len(mcall.padded) > Len(mcall.audio)
  /\ Len(mcall.audio) < mel.n_fft
  /\ mcall.outcome = "ok"

====
